---------------------------- MODULE Spec2Model ----------------------------
(***************************************************************************)
(* Policy iteration for the two-branch car rental problem (src/main.py).   *)
(*                                                                         *)
(* Numbers.  The program computes with Python floats.  The model computes  *)
(* with fixed-point integers: a dollar amount x is the integer x * VScale  *)
(* (cents), a probability p is the integer p * PScale, and every product   *)
(* of two fixed-point numbers is rounded to the nearest unit (RoundDiv),   *)
(* in the order in which the Python expression multiplies.  exp(-5) is the *)
(* fixed-point constant ExpNegRentRate.                                    *)
(*                                                                         *)
(* Objects.  A RentalBranch is a mutable object.  Where mutation matters   *)
(* (estimate_action_value) the model keeps the objects of a call in a      *)
(* sequence objs, an object reference being an index into it; references   *)
(* 1 and 2 are the caller's state.branchA and state.branchB.               *)
(***************************************************************************)
EXTENDS Integers, Sequences, FiniteSets, TLC

VARIABLES
    max_capacity,      \* main's parameter
    value_map,         \* ValueMap.value_map: State -> value (fixed point)
    policy,            \* Policy.stateToActionMap: a sparse map State -> action
    policy_changed,    \* main's local
    max_value_change,  \* main's local
    pc,                \* main's position
    idx,               \* position of the running for loop in state_iter
    sweep_start,       \* history: value_map when the running evaluation sweep began
    changed,           \* history: the states whose policy entry the running improvement sweep
                       \* changed, each with the action it held before
    eval_sweeps,       \* history: evaluation sweeps begun (saturating)
    improve_sweeps,    \* history: improvement sweeps begun (saturating)
    call               \* the last call of a function applied on its own (SpecFn)

vars == <<max_capacity, value_map, policy, policy_changed, max_value_change,
          pc, idx, sweep_start, changed, eval_sweeps, improve_sweeps, call>>

(***************************************************************************)
(* Bounds of the model.                                                    *)
(***************************************************************************)
MaxCapacity == 2      \* max_capacity ranges over 0..MaxCapacity
MaxInitLevel == 2     \* number of value levels above the lowest (InitValues, FnValues)
MaxTransfer == 3      \* actions and transfers tried on their own range over -MaxTransfer..MaxTransfer
MaxSweepCount == 3    \* the sweep counters saturate here

(***************************************************************************)
(* Program constants (src/main.py lines 5-9, 212) and the fixed-point      *)
(* units.                                                                  *)
(***************************************************************************)
VScale == 100                 \* one dollar
PScale == 10000               \* probability 1
BAD_MOVE_COST == -1000
RENT_RATE == 5
DiscountNum == 9              \* DISCOUNT_RATE = DiscountNum / DiscountDen
DiscountDen == 10
RENTAL_INCOME == 10
TRANSFER_COST == 2
value_change_threshold == 1
ExpNegRentRate == 67          \* math.exp(-RENT_RATE) = 0.0067379..., in units of 1/PScale
RandomLow == 0                \* random.uniform(0, 10)
RandomHigh == 10

Abs(x) == IF x < 0 THEN -x ELSE x
Min(a, b) == IF a < b THEN a ELSE b
Max(a, b) == IF a > b THEN a ELSE b

\* x / d rounded to the nearest integer (d > 0)
RoundDiv(x, d) == (2 * x + d) \div (2 * d)

RECURSIVE Factorial(_)
Factorial(n) == IF n <= 0 THEN 1 ELSE n * Factorial(n - 1)

RECURSIVE SumSeq(_)
SumSeq(s) == IF s = <<>> THEN 0 ELSE s[1] + SumSeq(Tail(s))

(***************************************************************************)
(* RentalBranch and State                                                  *)
(***************************************************************************)
RentalBranch(cap, available, queued) ==
    [max_capacity |-> cap, available |-> available, queued |-> queued]

State(branchA, branchB) == [branchA |-> branchA, branchB |-> branchB]

\* transfer_cars adding cars without the cap of line 42
transfer_cars_uncapped(objs, ref, car_transfers) ==
    LET self == objs[ref] IN
    IF car_transfers < 0
    THEN IF self.available + car_transfers < 0
         THEN [objs |-> objs, raised |-> TRUE]
         ELSE [objs |-> [objs EXCEPT ![ref].available = self.available + car_transfers],
               raised |-> FALSE]
    ELSE [objs |-> [objs EXCEPT ![ref].available = self.available + car_transfers],
          raised |-> FALSE]

\* transfer_cars refusing to take the last car (<= for < in line 35)
transfer_cars_keeps_one(objs, ref, car_transfers) ==
    LET self == objs[ref] IN
    IF car_transfers < 0
    THEN IF self.available + car_transfers <= 0
         THEN [objs |-> objs, raised |-> TRUE]
         ELSE [objs |-> [objs EXCEPT ![ref].available = self.available + car_transfers],
               raised |-> FALSE]
    ELSE LET free_spots == self.max_capacity - self.available - self.queued IN
         [objs |-> [objs EXCEPT ![ref].available = self.available + Min(car_transfers, free_spots)],
          raised |-> FALSE]

\* transfer_cars on the object objs[ref]: the objects afterwards, and whether
\* NotEnoughCarsException was raised
transfer_cars(objs, ref, car_transfers) ==
    LET self == objs[ref] IN
    IF car_transfers < 0
    THEN IF self.available + car_transfers < 0
         THEN [objs |-> objs, raised |-> TRUE]
         ELSE [objs |-> [objs EXCEPT ![ref].available = self.available + car_transfers],
               raised |-> FALSE]
    ELSE LET free_spots == self.max_capacity - self.available - self.queued IN
         [objs |-> [objs EXCEPT ![ref].available = self.available + Min(car_transfers, free_spots)],
          raised |-> FALSE]

\* no copy: the same object under another name
copy_alias(objs, ref) == [objs |-> Append(objs, objs[ref]), ref |-> ref]

\* copy.copy(objs[ref]): a new object with the same fields
copy_copy(objs, ref) == [objs |-> Append(objs, objs[ref]), ref |-> Len(objs) + 1]

(***************************************************************************)
(* Policy and ValueMap                                                     *)
(***************************************************************************)
\* Policy.__getitem__: dict.get(key, 0)
PolicyGet(p, key) == IF key \in DOMAIN p THEN p[key] ELSE 0

\* Policy.__setitem__
PolicySet(p, key, value) == [k \in DOMAIN p \cup {key} |-> IF k = key THEN value ELSE p[k]]

\* random_initialization with range(max_capacity) for range(max_capacity+1) in line 116
RandomInitKeysShort(cap) ==
    UNION { UNION { UNION { { [branchA |-> [max_capacity |-> cap, available |-> totalA - qA, queued |-> qA],
                               branchB |-> [max_capacity |-> cap, available |-> totalB - qB, queued |-> qB]]
                              : qB \in 0..totalB }
                            : totalB \in 0..(cap - 1) }
                    : qA \in 0..totalA }
            : totalA \in 0..cap }

\* the keys ValueMap.random_initialization writes
RandomInitKeys(cap) ==
    UNION { UNION { UNION { { State(RentalBranch(cap, totalA - qA, qA),
                                    RentalBranch(cap, totalB - qB, qB)) : qB \in 0..totalB }
                            : totalB \in 0..cap }
                    : qA \in 0..totalA }
            : totalA \in 0..cap }

\* ValueMap.random_initialization, draw[s] being what random.uniform(0, 10) returned for s
random_initialization(cap, draw) == [s \in RandomInitKeys(cap) |-> draw[s]]

(***************************************************************************)
(* state_iter and action_iter                                              *)
(***************************************************************************)
RECURSIVE BranchIter(_, _)
\* the branches state_iter's loops build, in loop order, for totals 0..total
BranchIter(cap, total) ==
    IF total < 0 THEN <<>>
    ELSE BranchIter(cap, total - 1)
         \o [i \in 1..(total + 1) |-> RentalBranch(cap, total - (i - 1), i - 1)]

\* the sequence of states state_iter yields
state_iter(cap) ==
    LET bs == BranchIter(cap, cap)
        m == Len(bs)
    IN [k \in 1..(m * m) |-> State(bs[((k - 1) \div m) + 1], bs[((k - 1) % m) + 1])]

\* the sequence of actions action_iter yields: range(-B.available, A.available + 1)
action_iter(state) ==
    [k \in 1..(state.branchA.available + state.branchB.available + 1)
        |-> k - 1 - state.branchB.available]

StateSpace(cap) == {state_iter(cap)[k] : k \in 1..Len(state_iter(cap))}

(***************************************************************************)
(* rental_probabilities and estimate_action_value                          *)
(***************************************************************************)
\* (RENT_RATE**n) / math.factorial(n) * math.exp(-RENT_RATE)
PoissonPMF(n) == RoundDiv(RENT_RATE ^ n * ExpNegRentRate, Factorial(n))

rental_probabilities(available) ==
    LET rent_prob == [n \in 1..available |-> PoissonPMF(n - 1)]
    IN Append(rent_prob, PScale - SumSeq(rent_prob))

\* the scenario's income without the discounted value of the next state
ScenarioIncomeNoFuture(probA, probB, custA, custB, value) ==
    RoundDiv(RoundDiv(probA * probB, PScale) * ((custA + custB) * RENTAL_INCOME * VScale),
             PScale)

\* probA*probB*( (custA+custB)*RENTAL_INCOME + DISCOUNT_RATE*value )
ScenarioIncome(probA, probB, custA, custB, value) ==
    RoundDiv(RoundDiv(probA * probB, PScale)
               * ((custA + custB) * RENTAL_INCOME * VScale
                    + RoundDiv(DiscountNum * value, DiscountDen)),
             PScale)

\* the state line 182 looks up for the scenario (custA, custB)
ScenarioState(branchA, branchB, custA, custB) ==
    State(RentalBranch(branchA.max_capacity, branchA.available - custA + branchA.queued, custA),
          RentalBranch(branchB.max_capacity, branchB.available - custB + branchB.queued, custB))

\* estimate_action_value(state, action, vm): the value returned (ret), whether the
\* except clause was taken (caught), the exception that escapes (exc), the states
\* looked up in vm (lookups), the objects after the call (objs) and vm after it
estimate_action_value(state, action, vm) ==
    LET o0 == <<state.branchA, state.branchB>>
        cA == copy_copy(o0, 1)
        cB == copy_copy(cA.objs, 2)
        tA == transfer_cars(cB.objs, cA.ref, -action)
        tB == transfer_cars(tA.objs, cB.ref, action)
        income0 == -TRANSFER_COST * Abs(action) * VScale
        branchA == tB.objs[cA.ref]
        branchB == tB.objs[cB.ref]
        rent_probA == rental_probabilities(branchA.available)
        rent_probB == rental_probabilities(branchB.available)
        nA == Len(rent_probA)
        nB == Len(rent_probB)
        custAOf(k) == (k - 1) \div nB
        custBOf(k) == (k - 1) % nB
        looked == {ScenarioState(branchA, branchB, custAOf(k), custBOf(k)) : k \in 1..(nA * nB)}
        terms == [k \in 1..(nA * nB) |->
                    ScenarioIncome(rent_probA[custAOf(k) + 1], rent_probB[custBOf(k) + 1],
                                   custAOf(k), custBOf(k),
                                   vm[ScenarioState(branchA, branchB, custAOf(k), custBOf(k))])]
    IN IF tA.raised
       THEN [ret |-> BAD_MOVE_COST * VScale, caught |-> TRUE, exc |-> "none",
             lookups |-> {}, objs |-> tA.objs, vm |-> vm]
       ELSE IF tB.raised
       THEN [ret |-> BAD_MOVE_COST * VScale, caught |-> TRUE, exc |-> "none",
             lookups |-> {}, objs |-> tB.objs, vm |-> vm]
       ELSE IF looked \subseteq DOMAIN vm
       THEN [ret |-> income0 + SumSeq(terms), caught |-> FALSE, exc |-> "none",
             lookups |-> looked, objs |-> tB.objs, vm |-> vm]
       ELSE [ret |-> 0, caught |-> FALSE, exc |-> "KeyError",
             lookups |-> looked, objs |-> tB.objs, vm |-> vm]

\* estimate_state_value
estimate_state_value(state, vm, p) == estimate_action_value(state, PolicyGet(p, state), vm)


(***************************************************************************)
(* max(actionVals, key=lambda e: e[1]): the first element whose key no     *)
(* later element of the scan exceeds -- the running best is replaced only  *)
(* by a strictly greater key.                                              *)
(***************************************************************************)
RECURSIVE MaxScanLast(_, _, _)
\* the scan keeping the last of the greatest (>= for >)
MaxScanLast(seq, k, best) ==
    IF k > Len(seq) THEN best
    ELSE MaxScanLast(seq, k + 1, IF seq[k][2] >= best[2] THEN seq[k] ELSE best)

RECURSIVE MaxScanMin(_, _, _)
\* the scan keeping the least (min for max)
MaxScanMin(seq, k, best) ==
    IF k > Len(seq) THEN best
    ELSE MaxScanMin(seq, k + 1, IF seq[k][2] < best[2] THEN seq[k] ELSE best)

RECURSIVE MaxScan(_, _, _)
MaxScan(seq, k, best) ==
    IF k > Len(seq) THEN best
    ELSE MaxScan(seq, k + 1, IF seq[k][2] > best[2] THEN seq[k] ELSE best)

max_by_value(seq) == MaxScan(seq, 2, seq[1])

\* line 236: the list of (action, value) pairs of a state
ActionVals(state, vm) ==
    LET acts == action_iter(state)
    IN [k \in 1..Len(acts) |-> <<acts[k], estimate_action_value(state, acts[k], vm).ret>>]

\* whether building that list raises (a value_map lookup of an unknown state)
ActionValsRaise(state, vm) ==
    \E k \in 1..Len(action_iter(state)) :
        estimate_action_value(state, action_iter(state)[k], vm).exc # "none"

\* the body with the flag assigned, not only set: the last state's comparison decides it
ImproveBodyFlagOfLast(state, vm, p, flag) ==
    LET best == max_by_value(ActionVals(state, vm))
    IN IF PolicyGet(p, state) # best[1]
       THEN [policy |-> PolicySet(p, state, best[1]), policy_changed |-> TRUE, best |-> best]
       ELSE [policy |-> p, policy_changed |-> FALSE, best |-> best]

\* the body writing only a greater action (< for != in line 238)
ImproveBodyOnlyUp(state, vm, p, flag) ==
    LET best == max_by_value(ActionVals(state, vm))
    IN IF PolicyGet(p, state) < best[1]
       THEN [policy |-> PolicySet(p, state, best[1]), policy_changed |-> TRUE, best |-> best]
       ELSE [policy |-> p, policy_changed |-> flag, best |-> best]

\* lines 236-240, the body of the improvement loop for one state
ImproveBody(state, vm, p, flag) ==
    LET best == max_by_value(ActionVals(state, vm))
    IN IF PolicyGet(p, state) # best[1]
       THEN [policy |-> PolicySet(p, state, best[1]), policy_changed |-> TRUE, best |-> best]
       ELSE [policy |-> p, policy_changed |-> flag, best |-> best]

(***************************************************************************)
(* main                                                                    *)
(***************************************************************************)
Threshold == value_change_threshold * VScale

NumStates == Len(state_iter(max_capacity))
CurState == state_iter(max_capacity)[idx]

Bump(n) == IF n < MaxSweepCount THEN n + 1 ELSE n

NoCall == [op |-> "none"]

\* the values random.uniform(0, 10) is taken to return
InitValues ==
    {RandomLow * VScale + (k * (RandomHigh - RandomLow) * VScale) \div MaxInitLevel
        : k \in 0..MaxInitLevel}

\* the draws of random_initialization: one value for the states with an even number
\* of available cars, one for the states with an odd number
InitDraws(cap) ==
    {[s \in RandomInitKeys(cap) |->
        IF (s.branchA.available + s.branchB.available) % 2 = 0 THEN even ELSE odd]
        : even \in InitValues, odd \in InitValues}

\* lines 212-217
Init ==
    /\ max_capacity \in 0..MaxCapacity
    /\ \E draw \in InitDraws(max_capacity) :
          value_map = random_initialization(max_capacity, draw)
    /\ policy = [s \in {} |-> 0]
    /\ policy_changed = TRUE
    /\ max_value_change = 0
    /\ pc = "outer_test"
    /\ idx = 1
    /\ sweep_start = value_map
    /\ changed = [s \in {} |-> 0]
    /\ eval_sweeps = 0
    /\ improve_sweeps = 0
    /\ call = NoCall

\* line 219 with policy_changed true, then lines 221-222
EnterOuterLoop ==
    /\ pc = "outer_test"
    /\ policy_changed
    /\ max_value_change' = Threshold + VScale
    /\ pc' = "eval_test"
    /\ UNCHANGED <<max_capacity, value_map, policy, policy_changed, idx,
                   sweep_start, changed, eval_sweeps, improve_sweeps, call>>

\* line 219 with policy_changed false, then lines 243-244
ExitOuterLoop ==
    /\ pc = "outer_test"
    /\ ~policy_changed
    /\ pc' = "done"
    /\ UNCHANGED <<max_capacity, value_map, policy, policy_changed, max_value_change, idx,
                   sweep_start, changed, eval_sweeps, improve_sweeps, call>>

\* line 223 with the test true, then line 224: an evaluation sweep begins
BeginEvalSweep ==
    /\ pc = "eval_test"
    /\ max_value_change > Threshold
    /\ max_value_change' = 0
    /\ idx' = 1
    /\ pc' = "eval_sweep"
    /\ sweep_start' = value_map
    /\ eval_sweeps' = Bump(eval_sweeps)
    /\ UNCHANGED <<max_capacity, value_map, policy, policy_changed, changed,
                   improve_sweeps, call>>

\* line 223 with the test false, then line 233: the improvement sweep begins
BeginImproveSweep ==
    /\ pc = "eval_test"
    /\ ~(max_value_change > Threshold)
    /\ policy_changed' = FALSE
    /\ idx' = 1
    /\ pc' = "improve_sweep"
    /\ changed' = [s \in {} |-> 0]
    /\ improve_sweeps' = Bump(improve_sweeps)
    /\ UNCHANGED <<max_capacity, value_map, policy, max_value_change, sweep_start,
                   eval_sweeps, call>>

\* the evaluation step of a synchronous sweep: the estimate reads the table of the
\* sweep's beginning
EvalStateSynchronous ==
    /\ pc = "eval_sweep"
    /\ LET state == CurState
           est == estimate_state_value(state, sweep_start, policy)
       IN IF state \notin DOMAIN value_map \/ est.exc # "none"
          THEN /\ pc' = "crashed"
               /\ UNCHANGED <<value_map, max_value_change, idx>>
          ELSE /\ value_map' = [value_map EXCEPT ![state] = est.ret]
               /\ max_value_change' = Max(max_value_change, Abs(est.ret - value_map[state]))
               /\ idx' = idx + 1
               /\ pc' = IF idx = NumStates THEN "eval_test" ELSE "eval_sweep"
    /\ UNCHANGED <<max_capacity, policy, policy_changed, sweep_start, changed,
                   eval_sweeps, improve_sweeps, call>>

\* lines 225-229 for one state: the value is overwritten in value_map at once
EvalState ==
    /\ pc = "eval_sweep"
    /\ LET state == CurState
           est == estimate_state_value(state, value_map, policy)
       IN IF state \notin DOMAIN value_map \/ est.exc # "none"
          THEN /\ pc' = "crashed"
               /\ UNCHANGED <<value_map, max_value_change, idx>>
          ELSE /\ value_map' = [est.vm EXCEPT ![state] = est.ret]
               /\ max_value_change' = Max(max_value_change, Abs(est.ret - value_map[state]))
               /\ idx' = idx + 1
               /\ pc' = IF idx = NumStates THEN "eval_test" ELSE "eval_sweep"
    /\ UNCHANGED <<max_capacity, policy, policy_changed, sweep_start, changed,
                   eval_sweeps, improve_sweeps, call>>

\* lines 235-241 for one state
ImproveState ==
    /\ pc = "improve_sweep"
    /\ LET state == CurState
           body == ImproveBody(state, value_map, policy, policy_changed)
       IN IF ActionValsRaise(state, value_map)
          THEN /\ pc' = "crashed"
               /\ UNCHANGED <<policy, policy_changed, idx, changed>>
          ELSE /\ policy' = body.policy
               /\ policy_changed' = body.policy_changed
               /\ changed' = IF PolicyGet(body.policy, state) # PolicyGet(policy, state)
                             THEN PolicySet(changed, state, PolicyGet(policy, state))
                             ELSE changed
               /\ idx' = idx + 1
               /\ pc' = IF idx = NumStates THEN "outer_test" ELSE "improve_sweep"
    /\ UNCHANGED <<max_capacity, value_map, max_value_change, sweep_start,
                   eval_sweeps, improve_sweeps, call>>

Next ==
    \/ EnterOuterLoop
    \/ ExitOuterLoop
    \/ BeginEvalSweep
    \/ BeginImproveSweep
    \/ EvalState
    \/ ImproveState

Spec == Init /\ [][Next]_vars

(***************************************************************************)
(* The functions applied on their own: one call per behaviour, on inputs   *)
(* drawn from bounded sets.                                                *)
(***************************************************************************)
\* every branch with available >= 0, queued >= 0 and available + queued <= cap
BranchSet(cap) ==
    UNION { {RentalBranch(cap, a, q) : q \in 0..(cap - a)} : a \in 0..cap }

TransferRange == (-MaxTransfer)..MaxTransfer

\* the values of the value tables the functions are applied to: 0, 10, 20, ... dollars
FnValues == {k * RandomHigh * VScale : k \in 0..MaxInitLevel}

TotalCars(s) ==
    s.branchA.available + s.branchA.queued + s.branchB.available + s.branchB.queued

\* the value tables the functions are applied to: two values, told apart by the parity
\* of the available cars or of all cars
FnTables(cap) ==
    {[s \in RandomInitKeys(cap) |->
        IF (IF byTotal THEN TotalCars(s) ELSE s.branchA.available + s.branchB.available) % 2 = 0
        THEN even ELSE odd]
        : even \in FnValues, odd \in FnValues, byTotal \in BOOLEAN}

\* the policies the improvement body is applied to: nothing stored, or for every state
\* the first, or the last, action of action_iter
FnPolicies(cap) ==
    {[s \in {} |-> 0],
     [s \in StateSpace(cap) |-> action_iter(s)[1]],
     [s \in StateSpace(cap) |-> action_iter(s)[Len(action_iter(s))]]}

InitFn ==
    /\ max_capacity \in 0..MaxCapacity
    /\ \E draw \in FnTables(max_capacity) :
          value_map = random_initialization(max_capacity, draw)
    /\ policy \in FnPolicies(max_capacity)
    /\ policy_changed = FALSE
    /\ max_value_change = 0
    /\ pc = "fn"
    /\ idx = 1
    /\ sweep_start = value_map
    /\ changed = [s \in {} |-> 0]
    /\ eval_sweeps = 0
    /\ improve_sweeps = 0
    /\ call = NoCall

CallTransferCars ==
    /\ pc = "fn"
    /\ call = NoCall
    /\ \E b \in BranchSet(max_capacity), n \in TransferRange :
          LET r == transfer_cars(<<b>>, 1, n)
          IN call' = [op |-> "transfer_cars", before |-> b, car_transfers |-> n,
                      after |-> r.objs[1], raised |-> r.raised]
    /\ UNCHANGED <<max_capacity, value_map, policy, policy_changed, max_value_change, pc, idx,
                   sweep_start, changed, eval_sweeps, improve_sweeps>>

CallEstimateActionValue ==
    /\ pc = "fn"
    /\ call = NoCall
    /\ \E s \in StateSpace(max_capacity), a \in TransferRange :
          LET r == estimate_action_value(s, a, value_map)
          IN /\ call' = [op |-> "estimate_action_value", state |-> s, action |-> a,
                         vm_before |-> value_map, ret |-> r.ret, caught |-> r.caught,
                         exc |-> r.exc, lookups |-> r.lookups, objs |-> r.objs]
             /\ value_map' = r.vm
    /\ UNCHANGED <<max_capacity, policy, policy_changed, max_value_change, pc, idx,
                   sweep_start, changed, eval_sweeps, improve_sweeps>>

CallImproveBody ==
    /\ pc = "fn"
    /\ call = NoCall
    /\ \E s \in StateSpace(max_capacity) :
          LET body == ImproveBody(s, value_map, policy, policy_changed)
          IN /\ ~ActionValsRaise(s, value_map)
             /\ call' = [op |-> "improve", state |-> s, policy_before |-> policy,
                         flag_before |-> policy_changed, best |-> body.best]
             /\ policy' = body.policy
             /\ policy_changed' = body.policy_changed
    /\ UNCHANGED <<max_capacity, value_map, max_value_change, pc, idx,
                   sweep_start, changed, eval_sweeps, improve_sweeps>>

NextFn ==
    \/ CallTransferCars
    \/ CallEstimateActionValue
    \/ CallImproveBody

SpecFn == InitFn /\ [][NextFn]_vars

(***************************************************************************)
(* C1.  transfer_cars, on a branch with 0 <= available, 0 <= queued and    *)
(* available + queued <= capacity, either raises NotEnoughCarsException    *)
(* and leaves available as it was, or returns with available >= 0 and     *)
(* available + queued <= capacity; it never changes capacity or queued.    *)
(***************************************************************************)
C1_TransferKeepsBranchValid ==
    call.op = "transfer_cars" =>
        /\ call.raised => call.after.available = call.before.available
        /\ ~call.raised => /\ call.after.available >= 0
                           /\ call.after.available + call.after.queued
                                 <= call.after.max_capacity
        /\ call.after.max_capacity = call.before.max_capacity
        /\ call.after.queued = call.before.queued

\* cars were added beyond the free spots, and the surplus dropped
C1_Witness ==
    /\ call.op = "transfer_cars"
    /\ ~call.raised
    /\ call.car_transfers > 0
    /\ call.before.queued > 0
    /\ call.after.available > call.before.available
    /\ call.after.available < call.before.available + call.car_transfers

\* a is in [-available(B), available(A)]
LegalAction(s, a) == -s.branchB.available <= a /\ a <= s.branchA.available

(***************************************************************************)
(* C2.  For a state of the state space and an action outside               *)
(* [-available(B), available(A)], estimate_action_value returns exactly    *)
(* BAD_MOVE_COST, through its except clause, and no exception escapes; for *)
(* an action inside the range nothing is raised and the except clause is   *)
(* not taken.                                                              *)
(***************************************************************************)
C2_IllegalActionCostsBadMove ==
    call.op = "estimate_action_value" =>
        IF LegalAction(call.state, call.action)
        THEN call.exc = "none" /\ ~call.caught
        ELSE call.exc = "none" /\ call.caught /\ call.ret = BAD_MOVE_COST * VScale

\* an action that takes more from B than B has: A's copy took the cars, then B raised
C2_Witness ==
    /\ call.op = "estimate_action_value"
    /\ call.action < -call.state.branchB.available
    /\ call.objs[3].available > call.state.branchA.available
    /\ call.ret = BAD_MOVE_COST * VScale

(***************************************************************************)
(* C9.  estimate_action_value does not change its inputs: after the call,  *)
(* legal or not, the branches of the caller's state have the capacity,     *)
(* available and queued they had, and the value table and its keys are     *)
(* what they were.                                                         *)
(***************************************************************************)
C9_EstimateLeavesInputs ==
    call.op = "estimate_action_value" =>
        /\ call.objs[1] = call.state.branchA
        /\ call.objs[2] = call.state.branchB
        /\ value_map = call.vm_before
        /\ DOMAIN value_map = DOMAIN call.vm_before

\* the call changed both of the branches it worked on
C9_Witness ==
    /\ call.op = "estimate_action_value"
    /\ Len(call.objs) = 4
    /\ call.objs[3] # call.state.branchA
    /\ call.objs[4] # call.state.branchB

(***************************************************************************)
(* What the claims about the improvement step and the sweeps speak of.     *)
(***************************************************************************)
LegalActions(s) == (-s.branchB.available)..s.branchA.available

\* the evaluated return of an action under a value table
Return(s, a, vm) == estimate_action_value(s, a, vm).ret

\* the legal actions of greatest return
Maximizers(s, vm) ==
    {a \in LegalActions(s) : \A b \in LegalActions(s) : Return(s, a, vm) >= Return(s, b, vm)}

SmallestMaximizer(s, vm) ==
    CHOOSE a \in Maximizers(s, vm) : \A b \in Maximizers(s, vm) : a <= b

ValidBranch(b, cap) ==
    /\ b.max_capacity = cap
    /\ b.available >= 0
    /\ b.queued >= 0
    /\ b.available + b.queued <= cap

Phase ==
    CASE pc \in {"eval_test", "eval_sweep"} -> "Evaluating"
      [] pc = "improve_sweep" -> "Improving"
      [] pc = "outer_test" -> IF improve_sweeps = 0 THEN "Evaluating" ELSE "Improving"
      [] pc = "done" -> "Converged"
      [] OTHER -> "Crashed"

(***************************************************************************)
(* C8.  In the improvement step the action selected is the first legal     *)
(* action, in the order of action_iter (so the smallest), among those of   *)
(* greatest return; the policy entry is written and the policy-changed     *)
(* flag set only when that action differs from the stored action (0 when   *)
(* none is stored).                                                        *)
(***************************************************************************)
C8_FirstMaximizerSelected ==
    call.op = "improve" =>
        LET s == call.state
            first == SmallestMaximizer(s, value_map)
        IN /\ call.best[1] = first
           /\ IF first # PolicyGet(call.policy_before, s)
              THEN policy = PolicySet(call.policy_before, s, first) /\ policy_changed
              ELSE policy = call.policy_before /\ policy_changed = call.flag_before

\* several actions tie for the greatest return, and the first of them was written
C8_Witness ==
    /\ call.op = "improve"
    /\ Cardinality(Maximizers(call.state, value_map)) >= 2
    /\ policy # call.policy_before
    /\ policy_changed

\* the evaluation sweep is complete and changed no value by more than the threshold
SweepWithinThreshold ==
    /\ eval_sweeps >= 1
    /\ idx = NumStates + 1
    /\ \A s \in StateSpace(max_capacity) : Abs(value_map[s] - sweep_start[s]) <= Threshold

C3_Step ==
    /\ Phase' \in {"Evaluating", "Improving", "Converged"}
    /\ (Phase = "Evaluating" /\ Phase' # "Evaluating")
          => (Phase' = "Improving" /\ SweepWithinThreshold)
    /\ (Phase = "Improving" /\ Phase' # "Improving")
          => \/ Phase' = "Evaluating" /\ DOMAIN changed # {}
             \/ Phase' = "Converged" /\ DOMAIN changed = {}
    /\ (Phase = "Improving" /\ pc = "outer_test")
          => Phase' = (IF DOMAIN changed # {} THEN "Evaluating" ELSE "Converged")
    /\ Phase = "Converged" => Phase' = "Converged"

(***************************************************************************)
(* C3.  The solver starts in Evaluating; it leaves Evaluating only for     *)
(* Improving, and only after a complete sweep in which no value changed by *)
(* more than the threshold; the improvement sweep over, it goes back to    *)
(* Evaluating if and only if that sweep changed at least one policy entry, *)
(* and to Converged, where it stays, if and only if it changed none.       *)
(***************************************************************************)
C3_SolverTransitions == (Phase = "Evaluating") /\ [][C3_Step]_vars

\* the solver went back from Improving to Evaluating at least once, and converged
C3_Witness ==
    /\ pc = "done"
    /\ improve_sweeps >= 2
    /\ DOMAIN policy # {}

(***************************************************************************)
(* C4 as stated: every evaluation sweep is synchronous -- the value a      *)
(* sweep computes for a state depends only on the value table as it stood  *)
(* when the sweep began.                                                   *)
(***************************************************************************)
C4_SynchronousSweep ==
    pc = "eval_sweep" =>
        \A k \in 1..(idx - 1) :
            LET s == state_iter(max_capacity)[k]
            IN value_map[s] = estimate_state_value(s, sweep_start, policy).ret

(***************************************************************************)
(* C4 amended.  Every evaluation sweep updates the value table in place:   *)
(* the states not yet visited hold their values of the sweep's beginning,  *)
(* and the value computed for a state is the estimate under the table as   *)
(* it stands when the state is visited -- this sweep's new values for the  *)
(* states visited before it, the values of the sweep's beginning for it    *)
(* and for the states after it.                                            *)
(***************************************************************************)
C4_InPlaceSweep ==
    pc = "eval_sweep" =>
        /\ \A k \in idx..NumStates :
              value_map[state_iter(max_capacity)[k]] = sweep_start[state_iter(max_capacity)[k]]
        /\ idx > 1 =>
              LET s == state_iter(max_capacity)[idx - 1]
                  seen == [value_map EXCEPT ![s] = sweep_start[s]]
              IN value_map[s] = estimate_state_value(s, seen, policy).ret

\* the value just written differs from the one the table of the sweep's beginning gives
C4_Witness ==
    /\ pc = "eval_sweep"
    /\ idx > 1
    /\ LET s == state_iter(max_capacity)[idx - 1]
       IN value_map[s] # estimate_state_value(s, sweep_start, policy).ret

RECURSIVE ImproveSweepFrom(_, _, _, _)
\* lines 235-240 from the k-th state on
ImproveSweepFrom(k, vm, p, flag) ==
    IF k > NumStates THEN [policy |-> p, policy_changed |-> flag]
    ELSE LET body == ImproveBody(state_iter(max_capacity)[k], vm, p, flag)
         IN ImproveSweepFrom(k + 1, vm, body.policy, body.policy_changed)

(***************************************************************************)
(* C5.  Once the solver has converged, one more improvement sweep over all *)
(* states, against the final value table and policy, changes no policy     *)
(* entry and leaves the policy-changed flag unset: for every state the     *)
(* stored action (or the default 0) is the action the step selects.        *)
(***************************************************************************)
C5_ConvergedPolicyIsFixed ==
    pc = "done" =>
        /\ ImproveSweepFrom(1, value_map, policy, FALSE)
              = [policy |-> policy, policy_changed |-> FALSE]
        /\ \A s \in StateSpace(max_capacity) :
              PolicyGet(policy, s) = max_by_value(ActionVals(s, value_map))[1]

\* converged after sweeps that changed the policy, on stored entries
C5_Witness ==
    /\ pc = "done"
    /\ policy_changed = FALSE
    /\ \E s \in DOMAIN policy : policy[s] = SmallestMaximizer(s, value_map)

C7_Step ==
    (pc = "improve_sweep" /\ pc' # "crashed") =>
        Return(CurState, PolicyGet(policy', CurState), value_map)
            >= Return(CurState, PolicyGet(policy, CurState), value_map)

(***************************************************************************)
(* C7.  In every improvement sweep and for every state, the action the     *)
(* policy holds after the state's step has an evaluated return, under the  *)
(* current value table, not lower than that of the action it held before.  *)
(***************************************************************************)
C7_ImprovementNeverLowersReturn == [][C7_Step]_vars

\* an action of strictly greater return replaced the one of the state just visited
C7_Witness ==
    /\ pc \in {"improve_sweep", "outer_test"}
    /\ idx > 1
    /\ LET s == state_iter(max_capacity)[idx - 1]
       IN /\ s \in DOMAIN changed
          /\ policy[s] # changed[s]
          /\ Return(s, changed[s], value_map) < Return(s, policy[s], value_map)

(***************************************************************************)
(* C10.  In every evaluation and improvement sweep, for the state visited, *)
(* every legal action and every joint outcome, the next state has, for     *)
(* each branch, available >= 0, queued >= 0 and available + queued <=      *)
(* capacity, and is a key random_initialization wrote: the lookup in the   *)
(* value table is defined, and the solver never stops on a missing key.    *)
(***************************************************************************)
C10_NextStateIsKnown ==
    /\ pc # "crashed"
    /\ pc \in {"eval_sweep", "improve_sweep"} =>
          /\ CurState \in DOMAIN value_map
          /\ \A a \in LegalActions(CurState) :
                LET r == estimate_action_value(CurState, a, value_map)
                IN /\ r.exc = "none"
                   /\ r.lookups # {}
                   /\ \A n \in r.lookups :
                         /\ ValidBranch(n.branchA, max_capacity)
                         /\ ValidBranch(n.branchB, max_capacity)
                         /\ n \in DOMAIN value_map

\* a legal action whose cars are dropped at a full branch B, and a next state in which
\* B is full again with cars queued
C10_Witness ==
    /\ pc = "improve_sweep"
    /\ improve_sweeps >= 2
    /\ \E a \in LegalActions(CurState) :
          LET r == estimate_action_value(CurState, a, value_map)
          IN /\ a > 0
             /\ r.objs[4].available < CurState.branchB.available + a
             /\ \E n \in r.lookups :
                   /\ n.branchB.queued > 0
                   /\ n.branchB.available + n.branchB.queued = max_capacity

(***************************************************************************)
(* The solver for max_capacity = 0, on every initial value of [0, 10].     *)
(***************************************************************************)
InitCapZero ==
    /\ max_capacity = 0
    /\ \E v \in (RandomLow * VScale)..(RandomHigh * VScale) :
          value_map = random_initialization(max_capacity,
                                            [s \in RandomInitKeys(max_capacity) |-> v])
    /\ policy = [s \in {} |-> 0]
    /\ policy_changed = TRUE
    /\ max_value_change = 0
    /\ pc = "outer_test"
    /\ idx = 1
    /\ sweep_start = value_map
    /\ changed = [s \in {} |-> 0]
    /\ eval_sweeps = 0
    /\ improve_sweeps = 0
    /\ call = NoCall

SpecCapZero == InitCapZero /\ [][Next]_vars

(***************************************************************************)
(* C6.  With max_capacity = 0 and any initial value in [0, 10]: the state  *)
(* space has exactly one state, its action range is [0, 0], the solver     *)
(* terminates after exactly one evaluation sweep followed by exactly one   *)
(* improvement sweep, and the final policy maps the state to action 0.     *)
(* (Every step is at a loop test, which is always enabled, or in a sweep   *)
(* with its one state still to visit; with at most one sweep of each kind  *)
(* begun, the run ends, and it ends at "done".)                            *)
(***************************************************************************)
C6_CapacityZero ==
    /\ Len(state_iter(max_capacity)) = 1
    /\ DOMAIN value_map = {state_iter(max_capacity)[1]}
    /\ action_iter(state_iter(max_capacity)[1]) = <<0>>
    /\ eval_sweeps <= 1
    /\ improve_sweeps <= 1
    /\ pc # "crashed"
    /\ idx <= (IF pc \in {"eval_sweep", "improve_sweep"} THEN 1 ELSE 2)
    /\ pc \in {"outer_test", "eval_test", "eval_sweep", "improve_sweep", "done"}
    /\ pc = "done" =>
          /\ eval_sweeps = 1
          /\ improve_sweeps = 1
          /\ PolicyGet(policy, state_iter(max_capacity)[1]) = 0

\* terminated from the initial value 10, whose one sweep changes it by exactly the threshold
C6_Witness ==
    /\ pc = "done"
    /\ max_capacity = 0
    /\ sweep_start[state_iter(max_capacity)[1]] = RandomHigh * VScale
    /\ max_value_change = Threshold

=============================================================================
